---- MODULE Spec2Model ----
(***************************************************************************)
(* PinPortrait: a webcam frame is drawn on a 2D canvas, cut into blocks of *)
(* size x size pixels, and every block drives the colour and height of one *)
(* cube of a three.js scene.                                               *)
(*                                                                         *)
(* The repository holds three copies of the script:                        *)
(*   "sketch"    src/src/javascript/sketch.js                              *)
(*   "inline"    src/index.html, lines 47-237 (the inline <script>)        *)
(*   "annotated" src/index.html, lines 240-484 (the commented copy)        *)
(* They differ in setupCubes (first column), in the sampling origin and in *)
(* the debugging rectangle that only sketch.js draws.                      *)
(*                                                                         *)
(* Numbers.  JavaScript numbers are modelled as exact rationals with a     *)
(* fixed denominator per quantity, or NaN:                                 *)
(*   luminance  (getAverage's val, col)  in units of 1/LDen                *)
(*   scale.z    (z = col/10 + 0.01)      in units of 1/ZDen, ZDen = 20 LDen*)
(*   position.z (z / 2)                  in units of 1/ZDen                *)
(* (every z is an even multiple of 1/ZDen, so that z / 2 is exact).        *)
(* A number is the record [nan |-> FALSE, n |-> numerator]; NaN is         *)
(* [nan |-> TRUE, n |-> 0].  Binary floating point rounding is not         *)
(* modelled.                                                               *)
(***************************************************************************)
EXTENDS Integers, Sequences, FiniteSets, TLC

\* ---------------------------------------------------------------- bounds
\* video.videoWidth ranges over 0..MaxW, video.videoHeight over 0..MaxH
\* (and the pair 64 x 48 is always among the dimensions tried).
MaxW == 9
MaxH == 9
\* the video delivers one of the frames 1..NumFrames
NumFrames == 3
\* passes counts up to MaxPasses and stays there
MaxPasses == 2

\* ------------------------------------------------------ program constants
size == 8
RectSide == 50
DefaultGray == 128
NrOfColors == 256

Impls == {"sketch", "inline", "annotated"}

\* BT.709 weights 0.2126, 0.7152, 0.0722 in units of 1/WeightDen
WeightR == 2126
WeightG == 7152
WeightB == 722
WeightDen == 10000

LDen == WeightDen * size * size
ZDen == 20 * LDen

\* ---------------------------------------------------------------- numbers
Num(n) == [nan |-> FALSE, n |-> n]
NaN == [nan |-> TRUE, n |-> 0]
isNaN(v) == v.nan

\* a + b, NaN if either is NaN
Add(a, b) == IF a.nan \/ b.nan THEN NaN ELSE Num(a.n + b.n)

\* m/1000 as a numerator over den (den is a multiple of 1000)
Milli(m, den) == m * (den \div 1000)

\* ----------------------------------------------------------- video frames
Frames == 1..NumFrames

\* Channel ch (0 red, 1 green, 2 blue, 3 alpha) of pixel (x, y) of video
\* frame f as drawn on the canvas: frame 1 is black, frame 2 is white, the
\* others are gradients.
VideoPixel(f, x, y, ch) ==
  IF ch = 3 THEN 255
  ELSE IF f = 1 THEN 0
  ELSE IF f = 2 THEN 255
  ELSE (f * x + (f + 2) * y + 40 * ch) % 256

\* The 2D canvas holds the frame last drawn on all of it (0: none, the
\* canvas is transparent black) and, above it, the debugging rectangle or
\* not.
BlankCanvas == [frame |-> 0, rect |-> FALSE]

CanvasPixel(c, x, y, ch) ==
  IF c.rect /\ x < RectSide /\ y < RectSide
    THEN (IF ch = 0 \/ ch = 3 THEN 255 ELSE 0)
  ELSE IF c.frame = 0 THEN 0
  ELSE VideoPixel(c.frame, x, y, ch)

\* imageData.data of ctx.getImageData(0, 0, pw, ph): a copy of the canvas,
\* pw*ph*4 bytes, row-major.
ImageData(c, pw, ph) == [w |-> pw, h |-> ph, src |-> c]

PixelsLength(pixels) == pixels.w * pixels.h * 4

\* pixels[index]: undefined outside the array, and undefined makes any sum
\* NaN
PixelsAt(pixels, index) ==
  IF index < 0 \/ index >= PixelsLength(pixels) THEN NaN
  ELSE LET p == index \div 4
       IN Num(CanvasPixel(pixels.src, p % pixels.w, p \div pixels.w, index % 4))

\* ------------------------------------------------------------- getAverage
\* r, g, b as getAverage accumulates them
AddRGB(a, b) == [r |-> Add(a.r, b.r), g |-> Add(a.g, b.g), b |-> Add(a.b, b.b)]

\* one execution of the inner loop's body: index = (x + w * y) * 4 and the
\* reads of pixels[index], pixels[index + 1], pixels[index + 2]; w is the
\* global canvas width gw
ReadRGB(pixels, gw, x, y) ==
  LET index == (x + gw * y) * 4
  IN [r |-> PixelsAt(pixels, index),
      g |-> PixelsAt(pixels, index + 1),
      b |-> PixelsAt(pixels, index + 2)]

\* for (let y = y0; y < y0 + size; y += 1), from y on
RECURSIVE InnerLoop(_, _, _, _, _)
InnerLoop(pixels, gw, x, y0, y) ==
  IF y < y0 + size
    THEN AddRGB(ReadRGB(pixels, gw, x, y), InnerLoop(pixels, gw, x, y0, y + 1))
    ELSE [r |-> Num(0), g |-> Num(0), b |-> Num(0)]

\* for (let x = x0; x < x0 + size; x += 1), from x on
RECURSIVE OuterLoop(_, _, _, _, _)
OuterLoop(pixels, gw, x0, y0, x) ==
  IF x < x0 + size
    THEN AddRGB(InnerLoop(pixels, gw, x, y0, y0),
                OuterLoop(pixels, gw, x0, y0, x + 1))
    ELSE [r |-> Num(0), g |-> Num(0), b |-> Num(0)]

\* (the blue weight mistyped as 0.0772)
WeightedVal_Typo(sum) ==
  IF sum.r.nan \/ sum.g.nan \/ sum.b.nan THEN NaN
  ELSE Num(WeightR * sum.r.n + WeightG * sum.g.n + 772 * sum.b.n)

\* val = (0.2126*r + 0.7152*g + 0.0722*b) / (size*size), in units of 1/LDen
WeightedVal(sum) ==
  IF sum.r.nan \/ sum.g.nan \/ sum.b.nan THEN NaN
  ELSE Num(WeightR * sum.r.n + WeightG * sum.g.n + WeightB * sum.b.n)

\* (return val, without the isNaN test)
getAverage_NoFallback(pixels, gw, x0, y0) ==
  WeightedVal(OuterLoop(pixels, gw, x0, y0, x0))

\* getAverage(pixels, x0, y0): return isNaN(val) ? 1 : val
getAverage(pixels, gw, x0, y0) ==
  LET val == WeightedVal(OuterLoop(pixels, gw, x0, y0, x0))
  IN IF isNaN(val) THEN Num(LDen) ELSE val

\* --------------------------------------------------------------- pixelate
\* THREE.Color(`rgb(i, i, i)`) and the undefined that Map.get returns for a
\* key the map does not hold
Color(i) == <<i, i, i>>
Undefined == <<>>

\* setupColors: for i = 0 .. 255, colors.set(i, rgb(i, i, i)).  The Map is
\* kept as the number n of its entries, which are i -> Color(i) for i < n.
setupColors == NrOfColors

\* colors.get(c)
colorsGet(table, c) ==
  IF ~c.nan /\ c.n \in 0..(table - 1) THEN Color(c.n) ELSE Undefined

\* Math.round(col): the integer nearest to col, halves rounded up; col is in
\* units of 1/LDen, the result is a plain integer
MathRound(col) ==
  IF col.nan THEN NaN ELSE Num((2 * col.n + LDen) \div (2 * LDen))

\* (z = col / 10, without the 0.01)
HeightOf_NoOffset(col) ==
  IF col.nan THEN NaN ELSE Num(2 * col.n)

\* z = col / 10 + 0.01, in units of 1/ZDen: col/10 is col.n / (10 LDen),
\* that is 2 col.n / ZDen
HeightOf(col) ==
  IF col.nan THEN NaN ELSE Num(2 * col.n + Milli(10, ZDen))

\* z / 2, in units of 1/ZDen
HalfOf(z) == IF z.nan THEN NaN ELSE Num(z.n \div 2)

\* (no axis mirrored)
SampleOrigin_Unmirrored(i, cube, gw, gh) ==
  <<cube.position.x * size, cube.position.y * size>>

\* the arguments x0, y0 that pixelate passes to getAverage for a cube
SampleOrigin(i, cube, gw, gh) ==
  IF i = "annotated"
    THEN <<cube.position.x * size, gh - cube.position.y * size>>
    ELSE <<gw - cube.position.x * size, gh - cube.position.y * size>>

\* the body of pixelate's forEach for one cube
pixelateCube(i, table, pixels, gw, gh, cube) ==
  LET o == SampleOrigin(i, cube, gw, gh)
      col == getAverage(pixels, gw, o[1], o[2])
      c == MathRound(col)
      z == HeightOf(col)
  IN [cube EXCEPT !.material.color = colorsGet(table, c),
                  !.scale.z = z,
                  !.position.z = HalfOf(z)]

\* ----------------------------------------------------- reset, setupCubes
\* nrOfCubesX = w / size is a fraction, kept as numerator and denominator
Fraction(a, b) == [num |-> a, den |-> b]

\* x < q for an integer x and a fraction q
LessThan(x, q) == x * q.den < q.num

\* new THREE.Mesh(geometry, material) at cube.position.set(x, y, 0): scale
\* is (1, 1, 1) and the colour is rgb(128, 128, 128)
NewCube(x, y) ==
  [position |-> [x |-> x, y |-> y, z |-> Num(0)],
   scale |-> [z |-> Num(ZDen)],
   material |-> [color |-> Color(DefaultGray)]]

\* the first value of x in setupCubes's outer loop
FirstColumn(i) == IF i = "annotated" THEN 1 ELSE 0

RECURSIVE CubeLoop(_, _, _, _)
CubeLoop(x, y, nx, ny) ==
  IF ~LessThan(x, nx) THEN <<>>
  ELSE IF ~LessThan(y, ny) THEN CubeLoop(x + 1, 0, nx, ny)
  ELSE <<NewCube(x, y)>> \o CubeLoop(x, y + 1, nx, ny)

\* setupCubes: cubes = [], then one cube per (x, y) of the two loops
setupCubes(i, nx, ny) == CubeLoop(FirstColumn(i), 0, nx, ny)

\* ------------------------------------------------------------------ state
VARIABLES
  impl,         \* which copy of the script runs
  pc,           \* where the running callback stands; "idle" between callbacks
  videoWidth,   \* video.videoWidth
  videoHeight,  \* video.videoHeight
  w, h,         \* canvas width and height, set by reset
  nrOfCubesX,   \* w / size
  nrOfCubesY,   \* h / size
  colors,       \* the colour table (the number of its entries)
  cubes,        \* the meshes, in creation order
  camera,       \* "undefined" until setupCamera
  canvas,       \* what the 2D canvas shows
  pixels,       \* pixelate's imageData.data
  k,            \* forEach: index of the next cube
  rafPending,   \* a requestAnimationFrame(draw) callback is queued
  log,          \* what the current (or last) draw() has done so far
  passes,       \* pixelate passes since a frame was last drawn (at most
                \* MaxPasses are counted)
  resized       \* how the last onWindowResize ended; "never" before the first

vars == <<impl, pc, videoWidth, videoHeight, w, h, nrOfCubesX, nrOfCubesY,
          colors, cubes, camera, canvas, pixels, k, rafPending, log, passes,
          resized>>

VideoDims == ((0..MaxW) \X (0..MaxH)) \cup {<<64, 48>>}

NoPixels == ImageData(BlankCanvas, 0, 0)

\* the script has been loaded and is about to call setup()
Init ==
  /\ impl \in Impls
  /\ pc = "load"
  /\ videoWidth = 0
  /\ videoHeight = 0
  /\ w = 0
  /\ h = 0
  /\ nrOfCubesX = Fraction(0, size)
  /\ nrOfCubesY = Fraction(0, size)
  /\ colors = 0
  /\ cubes = <<>>
  /\ camera = "undefined"
  /\ canvas = BlankCanvas
  /\ pixels = NoPixels
  /\ k = 1
  /\ rafPending = FALSE
  /\ log = <<>>
  /\ passes = 0
  /\ resized = "never"

\* ---------------------------------------------------------------- start-up
\* setup(), up to the call of setupWebCamera: the colour table is built and
\* getUserMedia is pending
Setup ==
  /\ pc = "load"
  /\ colors' = setupColors
  /\ pc' = "getUserMedia"
  /\ UNCHANGED <<impl, resized, videoWidth, videoHeight, w, h, nrOfCubesX, nrOfCubesY,
                 cubes, camera, canvas, pixels, k, rafPending, log, passes>>

\* getUserMedia resolves: the stream is attached to the video element
MediaGranted ==
  /\ pc = "getUserMedia"
  /\ pc' = "metadata"
  /\ UNCHANGED <<impl, resized, videoWidth, videoHeight, w, h, nrOfCubesX, nrOfCubesY,
                 colors, cubes, camera, canvas, pixels, k, rafPending, log,
                 passes>>

\* getUserMedia rejects: setupWebCamera rejects and nothing else ever runs
MediaDenied ==
  /\ pc = "getUserMedia"
  /\ pc' = "failed"
  /\ UNCHANGED <<impl, resized, videoWidth, videoHeight, w, h, nrOfCubesX, nrOfCubesY,
                 colors, cubes, camera, canvas, pixels, k, rafPending, log,
                 passes>>

\* video.onloadedmetadata: the dimensions of the video are known, resolve()
LoadedMetadata ==
  /\ pc = "metadata"
  /\ \E d \in VideoDims :
       /\ videoWidth' = d[1]
       /\ videoHeight' = d[2]
  /\ pc' = "then"
  /\ UNCHANGED <<impl, resized, w, h, nrOfCubesX, nrOfCubesY, colors, cubes, camera,
                 canvas, pixels, k, rafPending, log, passes>>

\* the then-callback of setup: reset(); setupCamera(); setupCubes();
\* setupLights(); and then it calls draw().  Setting canvas.width clears
\* the canvas.
Initialize ==
  /\ pc = "then"
  /\ w' = videoWidth
  /\ h' = videoHeight
  /\ canvas' = BlankCanvas
  /\ nrOfCubesX' = Fraction(videoWidth, size)
  /\ nrOfCubesY' = Fraction(videoHeight, size)
  /\ camera' = "PerspectiveCamera"
  /\ cubes' = setupCubes(impl, nrOfCubesX', nrOfCubesY')
  /\ pc' = "draw"
  /\ UNCHANGED <<impl, resized, videoWidth, videoHeight, colors, pixels, k, rafPending,
                 log, passes>>

\* --------------------------------------------------------------- one cycle
\* (draw() without its ctx.drawImage)
AfterRequest_SkipCapture == "getImageData"

\* the position of draw() after requestAnimationFrame(draw)
AfterRequest == "drawImage"

\* the forEach goes on with cube kk of n, or pixelate returns and draw
\* renders
ForEachOrRender(kk, n) == IF kk <= n THEN "forEach" ELSE "render"

\* where pixelate goes once the snapshot is taken
AfterSnapshot(i, n) ==
  IF i = "sketch" THEN "fillRect" ELSE ForEachOrRender(1, n)

\* draw(): requestAnimationFrame(draw)
RequestFrame ==
  /\ pc = "draw"
  /\ rafPending' = TRUE
  /\ log' = <<>>
  /\ pc' = AfterRequest
  /\ UNCHANGED <<impl, resized, videoWidth, videoHeight, w, h, nrOfCubesX, nrOfCubesY,
                 colors, cubes, camera, canvas, pixels, k, passes>>

\* ctx.drawImage(video, 0, 0, w, h) with the video showing frame f; with no
\* frame to show yet (f = 0) nothing is drawn
drawImage(c, f) == IF f = 0 THEN c ELSE [frame |-> f, rect |-> FALSE]

DrawImage ==
  /\ pc = "drawImage"
  /\ \E f \in 0..NumFrames :
       /\ canvas' = drawImage(canvas, f)
       /\ log' = Append(log, <<"capture", f>>)
       /\ passes' = IF f = 0 THEN passes ELSE 0
  /\ pc' = "getImageData"
  /\ UNCHANGED <<impl, resized, videoWidth, videoHeight, w, h, nrOfCubesX, nrOfCubesY,
                 colors, cubes, camera, pixels, k, rafPending>>

\* one more pass
CountPass(n) == IF n < MaxPasses THEN n + 1 ELSE n

\* pixelate: ctx.getImageData(0, 0, w, h), which throws IndexSizeError for a
\* width or height of 0: draw() ends there
GetImageData ==
  /\ pc = "getImageData"
  /\ IF w = 0 \/ h = 0
       THEN /\ log' = Append(log, <<"throw">>)
            /\ pc' = "idle"
            /\ UNCHANGED <<pixels, k, passes>>
       ELSE /\ pixels' = ImageData(canvas, w, h)
            /\ log' = Append(log, <<"snapshot", pixels'>>)
            /\ k' = 1
            /\ passes' = CountPass(passes)
            /\ pc' = AfterSnapshot(impl, Len(cubes))
  /\ UNCHANGED <<impl, resized, videoWidth, videoHeight, w, h, nrOfCubesX, nrOfCubesY,
                 colors, cubes, camera, canvas, rafPending>>

\* ctx.fillStyle = 'red'; ctx.fillRect(0, 0, 50, 50) (sketch.js only)
fillRect(c) == [c EXCEPT !.rect = TRUE]

FillRect ==
  /\ pc = "fillRect"
  /\ canvas' = fillRect(canvas)
  /\ log' = Append(log, <<"fillRect">>)
  /\ pc' = ForEachOrRender(k, Len(cubes))
  /\ UNCHANGED <<impl, resized, videoWidth, videoHeight, w, h, nrOfCubesX, nrOfCubesY,
                 colors, cubes, camera, pixels, k, rafPending, passes>>

\* one call of the forEach callback
Sample ==
  /\ pc = "forEach"
  /\ k <= Len(cubes)
  /\ cubes' = [cubes EXCEPT
                 ![k] = pixelateCube(impl, colors, pixels, w, h, cubes[k])]
  /\ log' = Append(log, <<"sample", k, pixels,
                          SampleOrigin(impl, cubes[k], w, h)>>)
  /\ k' = k + 1
  /\ pc' = ForEachOrRender(k', Len(cubes))
  /\ UNCHANGED <<impl, resized, videoWidth, videoHeight, w, h, nrOfCubesX, nrOfCubesY,
                 colors, camera, canvas, pixels, rafPending, passes>>

\* renderer.render(scene, camera): draw() returns
Render ==
  /\ pc = "render"
  /\ log' = Append(log, <<"render">>)
  /\ pixels' = NoPixels
  /\ pc' = "idle"
  /\ UNCHANGED <<impl, resized, videoWidth, videoHeight, w, h, nrOfCubesX, nrOfCubesY,
                 colors, cubes, camera, canvas, k, rafPending, passes>>

\* the browser runs the queued animation frame callback: draw() again.  A
\* callback only starts when no other one is running.
CanRunCallback == pc = "idle"

AnimationFrame ==
  /\ rafPending
  /\ CanRunCallback
  /\ rafPending' = FALSE
  /\ pc' = "draw"
  /\ UNCHANGED <<impl, resized, videoWidth, videoHeight, w, h, nrOfCubesX, nrOfCubesY,
                 colors, cubes, camera, canvas, pixels, k, log, passes>>

Next ==
  \/ Setup
  \/ MediaGranted
  \/ MediaDenied
  \/ LoadedMetadata
  \/ Initialize
  \/ RequestFrame
  \/ DrawImage
  \/ GetImageData
  \/ FillRect
  \/ Sample
  \/ Render
  \/ AnimationFrame

Spec == Init /\ [][Next]_vars

\* -------------------------------------------------------- the page's events
\* A third specification adds what the browser may do between two
\* callbacks: the video changes its dimensions, the window is resized.

\* the browser runs no callback of the page and the resize listener is
\* registered (setupEventListeners has run)
BetweenCallbacks == pc \in {"getUserMedia", "metadata", "failed", "idle"}

\* The dimensions the playing video may change to: the camera is turned
\* (width and height swap) or the stream changes to or from 64 x 48.  No
\* code of the page listens to this.
NewVideoDims(vw, vh) ==
  {<<vh, vw>>, <<64, 48>>, <<MaxW, MaxH>>} \ {<<vw, vh>>}

VideoResize ==
  /\ pc = "idle"
  /\ \E d \in NewVideoDims(videoWidth, videoHeight) :
       /\ videoWidth' = d[1]
       /\ videoHeight' = d[2]
  /\ UNCHANGED <<impl, resized, pc, w, h, nrOfCubesX, nrOfCubesY, colors, cubes,
                 camera, canvas, pixels, k, rafPending, log, passes>>

\* onWindowResize: camera.aspect = ... throws a TypeError while camera is
\* undefined, and the handler ends there; otherwise the camera and the
\* renderer take the window's size
onWindowResize(cam) == IF cam = "undefined" THEN "TypeError" ELSE "done"

\* the window's resize event
WindowResize ==
  /\ BetweenCallbacks
  /\ resized' = onWindowResize(camera)
  /\ UNCHANGED <<impl, pc, videoWidth, videoHeight, w, h, nrOfCubesX, nrOfCubesY,
                 colors, cubes, camera, canvas, pixels, k, rafPending, log,
                 passes>>

PageNext ==
  \/ Next
  \/ VideoResize
  \/ WindowResize

PageSpec == Init /\ [][PageNext]_vars

\* ------------------------------------------------- the functions, called
\* A second specification starts where reset() and setupCubes() have run
\* for some video, and calls ctx.drawImage and pixelate() as whole
\* functions, in any order.

\* what one whole pixelate() appends to the log
PixelateLog(i, px, gw, gh, cs) ==
  <<<<"snapshot", px>>>>
  \o (IF i = "sketch" THEN <<<<"fillRect">>>> ELSE <<>>)
  \o [j \in 1..Len(cs) |-> <<"sample", j, px, SampleOrigin(i, cs[j], gw, gh)>>]

\* the cubes after the whole forEach
PixelateAll(i, table, px, gw, gh, cs) ==
  [j \in 1..Len(cs) |-> pixelateCube(i, table, px, gw, gh, cs[j])]

SamplerInit ==
  /\ impl \in Impls
  /\ pc = "idle"
  /\ \E d \in VideoDims :
       /\ videoWidth = d[1]
       /\ videoHeight = d[2]
       /\ w = d[1]
       /\ h = d[2]
       /\ nrOfCubesX = Fraction(d[1], size)
       /\ nrOfCubesY = Fraction(d[2], size)
       /\ cubes = setupCubes(impl, Fraction(d[1], size), Fraction(d[2], size))
  /\ colors = setupColors
  /\ camera = "PerspectiveCamera"
  /\ canvas = BlankCanvas
  /\ pixels = NoPixels
  /\ k = 1
  /\ rafPending = FALSE
  /\ log = <<>>
  /\ passes = 0
  /\ resized = "never"

\* ctx.drawImage(video, 0, 0, w, h) with the video showing frame f
CallDrawImage ==
  /\ \E f \in Frames : canvas' = drawImage(canvas, f)
  /\ log' = <<>>
  /\ passes' = 0
  /\ UNCHANGED <<impl, resized, pc, videoWidth, videoHeight, w, h, nrOfCubesX,
                 nrOfCubesY, colors, cubes, camera, pixels, k, rafPending>>

\* pixelate(), from its first line to its return
CallPixelate ==
  /\ IF w = 0 \/ h = 0
       THEN /\ log' = <<<<"throw">>>>
            /\ UNCHANGED <<canvas, cubes, passes>>
       ELSE LET px == ImageData(canvas, w, h)
            IN /\ canvas' = IF impl = "sketch" THEN fillRect(canvas) ELSE canvas
               /\ cubes' = PixelateAll(impl, colors, px, w, h, cubes)
               /\ log' = PixelateLog(impl, px, w, h, cubes)
               /\ passes' = CountPass(passes)
  /\ UNCHANGED <<impl, resized, pc, videoWidth, videoHeight, w, h, nrOfCubesX,
                 nrOfCubesY, colors, camera, pixels, k, rafPending>>

SamplerNext ==
  \/ CallDrawImage
  \/ CallPixelate

SamplerSpec == SamplerInit /\ [][SamplerNext]_vars

\* ------------------------------------------------------------ properties
\* reset() and setupCubes() have run
Initialized == pc \notin {"load", "getUserMedia", "metadata", "failed", "then"}

\* the pixel coordinates (x, y) that getAverage(pixels, x0, y0) visits
ReadCoords(x0, y0) == (x0..(x0 + size - 1)) \X (y0..(y0 + size - 1))

\* the log's entries of the calls of getAverage
Samples == {j \in 1..Len(log) : log[j][1] = "sample"}

\* how often a loop for (x = 0; x < q; x++) runs its body
LoopCount(q) == Cardinality({x \in 0..q.num : LessThan(x, q)})

\* C1: the grid that reset() and setupCubes() build has floor(W/size)
\* columns and floor(H/size) rows, as many cubes as columns times rows, and
\* no cube at all when W < size or H < size.
C1_GridIsFloor ==
  (Initialized /\ impl = "sketch") =>
    /\ LoopCount(nrOfCubesX) = w \div size
    /\ LoopCount(nrOfCubesY) = h \div size
    /\ Len(cubes) = (w \div size) * (h \div size)
    /\ (w < size \/ h < size) => Len(cubes) = 0

\* C2: every pixel coordinate that getAverage reads lies in the frame,
\* 0 <= x < W and 0 <= y < H, and its last index is inside the buffer.
C2_ReadsInBounds ==
  impl = "sketch" =>
    \A j \in Samples :
      \A c \in ReadCoords(log[j][4][1], log[j][4][2]) :
        /\ 0 <= c[1] /\ c[1] < w
        /\ 0 <= c[2] /\ c[2] < h
        /\ (c[1] + w * c[2]) * 4 + 2 < w * h * 4

\* the sum of channel ch over the size x size window at (x0, y0) of the
\* canvas c, row by row
WindowSum(c, x0, y0, ch) ==
  LET S[n \in 0..(size * size)] ==
        IF n = 0 THEN 0
        ELSE S[n - 1]
             + CanvasPixel(c, x0 + ((n - 1) % size), y0 + ((n - 1) \div size), ch)
  IN S[size * size]

\* 0.2126 R + 0.7152 G + 0.0722 B over the window, times WeightDen: the
\* luminance L of the window is this number over LDen
WindowLum(c, x0, y0) ==
  WeightR * WindowSum(c, x0, y0, 0) + WeightG * WindowSum(c, x0, y0, 1)
    + WeightB * WindowSum(c, x0, y0, 2)

\* the window of sample j lies in [0, w) x [0, h)
InFrame(j) ==
  /\ 0 <= log[j][4][1] /\ log[j][4][1] + size <= w
  /\ 0 <= log[j][4][2] /\ log[j][4][2] + size <= h

\* the cube that sample j wrote
CubeOf(j) == cubes[log[j][2]]

\* C3: a block whose window lies in the frame gets colorIndex = round(L),
\* heightValue = L/10 + 0.01 > 0 and depthOffset = heightValue/2; an all-zero
\* window gives 0, 0.01 and 0.005.
C3_InFrameAttributes ==
  /\ \A j \in 1..Len(cubes) : ~cubes[j].scale.z.nan /\ cubes[j].scale.z.n > 0
  /\ \A j \in Samples :
    InFrame(j) =>
      LET n == WindowLum(log[j][3].src, log[j][4][1], log[j][4][2])
          cube == CubeOf(j)
      IN /\ \E c \in 0..(NrOfColors - 1) :
              /\ cube.material.color = Color(c)
              /\ 2 * c * LDen - LDen <= 2 * n
              /\ 2 * n < 2 * c * LDen + LDen
         /\ ~cube.scale.z.nan
         /\ cube.scale.z.n = 2 * n + (ZDen \div 100)
         /\ cube.scale.z.n > 0
         /\ ~cube.position.z.nan
         /\ 2 * cube.position.z.n = cube.scale.z.n
         /\ n = 0 => /\ cube.material.color = Color(0)
                     /\ cube.scale.z.n = Milli(10, ZDen)
                     /\ cube.position.z.n = Milli(5, ZDen)

\* a block in the frame has been sampled from a window that is not black,
\* and another from a black one
C3_Witness ==
  /\ \E j \in Samples :
       InFrame(j) /\ WindowLum(log[j][3].src, log[j][4][1], log[j][4][2]) > 0
  /\ \E j \in Samples :
       InFrame(j) /\ WindowLum(log[j][3].src, log[j][4][1], log[j][4][2]) = 0

\* the indices that getAverage reads for sample j
ReadIndices(j) ==
  UNION {LET index == (c[1] + w * c[2]) * 4 IN {index, index + 1, index + 2} :
         c \in ReadCoords(log[j][4][1], log[j][4][2])}

\* the indices that lie outside pixels
OutsideBuffer(j) ==
  {i \in ReadIndices(j) : i < 0 \/ i >= PixelsLength(log[j][3])}

\* C4: a block with a read outside the buffer, for all of its window or for
\* a part, gets the fallback L = 1: colorIndex = 1, heightValue = 0.11,
\* depthOffset = 0.055; and no cube ever holds NaN or an undefined colour.
C4_FallbackAttributes ==
  /\ \A j \in Samples :
       OutsideBuffer(j) /= {} =>
         /\ CubeOf(j).material.color = Color(1)
         /\ CubeOf(j).scale.z = Num(Milli(110, ZDen))
         /\ CubeOf(j).position.z = Num(Milli(55, ZDen))
  /\ \A j \in 1..Len(cubes) :
       /\ cubes[j].material.color /= Undefined
       /\ ~cubes[j].scale.z.nan
       /\ ~cubes[j].position.z.nan

\* one block has been sampled with all of its reads outside the buffer, and
\* another with only a part of them outside
C4_Witness ==
  /\ \E j \in Samples : OutsideBuffer(j) = ReadIndices(j)
  /\ \E j \in Samples :
       OutsideBuffer(j) /= {} /\ OutsideBuffer(j) /= ReadIndices(j)

\* every red, green and blue sample of the window of sample j is 255
AllSaturated(j) ==
  \A c \in ReadCoords(log[j][4][1], log[j][4][2]) :
    \A ch \in 0..2 : CanvasPixel(log[j][3].src, c[1], c[2], ch) = 255

\* C5 (as stated): a window in the frame whose samples are all 255 gives
\* colorIndex = 255, heightValue = 25.6 and depthOffset = 12.8.
C5_Saturated_Original ==
  \A j \in Samples :
    (InFrame(j) /\ AllSaturated(j)) =>
      /\ CubeOf(j).material.color = Color(255)
      /\ CubeOf(j).scale.z = Num(Milli(25600, ZDen))
      /\ CubeOf(j).position.z = Num(Milli(12800, ZDen))

\* C5 (amended): a window in the frame whose samples are all 255 gives
\* colorIndex = 255, heightValue = 255/10 + 0.01 = 25.51 and
\* depthOffset = 12.755.
C5_Saturated ==
  \A j \in Samples :
    (InFrame(j) /\ AllSaturated(j)) =>
      /\ CubeOf(j).material.color = Color(255)
      /\ CubeOf(j).scale.z = Num(Milli(25510, ZDen))
      /\ CubeOf(j).position.z = Num(Milli(12755, ZDen))

\* sketch.js has sampled a block in the frame from an all-255 window
C5_Witness ==
  /\ impl = "sketch"
  /\ \E j \in Samples : InFrame(j) /\ AllSaturated(j)

\* a whole sampling pass is in the log
PassDone ==
  \/ pc = "render"
  \/ Len(log) > 0 /\ log[Len(log)][1] = "render"

\* the grid cell (gx, gy) has a cube that the pass sampled
CellSampled(gx, gy) ==
  \E j \in Samples :
    CubeOf(j).position.x = gx /\ CubeOf(j).position.y = gy

\* sample j read the window at (W - gx*size, H - gy*size)
MirroredBoth(j) ==
  log[j][4] = <<w - CubeOf(j).position.x * size, h - CubeOf(j).position.y * size>>

\* C6 (as stated): every copy of pixelate samples the window at
\* (W - gx*size, H - gy*size), and every cell 0 <= gx < cols, 0 <= gy < rows,
\* column 0 included, has a block that is sampled.
C6_Mirrored_Original ==
  /\ \A j \in Samples : MirroredBoth(j)
  /\ PassDone =>
       \A gx \in 0..((w \div size) - 1), gy \in 0..((h \div size) - 1) :
         CellSampled(gx, gy)

\* C6 (amended): sketch.js and the inline script of index.html do so; the
\* annotated copy of index.html samples the window at (gx*size, H - gy*size),
\* builds no cube for column 0 and samples the cells of the other columns.
C6_Mirrored ==
  /\ impl \in {"sketch", "inline"} => C6_Mirrored_Original
  /\ impl = "annotated" =>
       /\ \A j \in Samples :
            log[j][4] = <<CubeOf(j).position.x * size,
                          h - CubeOf(j).position.y * size>>
       /\ \A j \in 1..Len(cubes) : cubes[j].position.x /= 0
       /\ PassDone =>
            \A gx \in 1..((w \div size) - 1), gy \in 0..((h \div size) - 1) :
              CellSampled(gx, gy)

\* the annotated copy has finished a pass over a grid of several columns,
\* having read a window that is not the mirrored one
C6_Witness ==
  /\ impl = "annotated"
  /\ PassDone
  /\ w \div size > 2
  /\ \E j \in Samples : ~MirroredBoth(j)

\* C7: a second pixelate() with no frame drawn since the first one leaves
\* every cube as the first one left it (colour, scale.z, position.z and the
\* grid coordinates).
C7_Idempotent ==
  [][(passes = 1 /\ passes' = 2) => cubes' = cubes]_vars

\* the grid coordinates of the cubes
GridCoords(cs) == [j \in 1..Len(cs) |-> <<cs[j].position.x, cs[j].position.y>>]

\* a step leaves the grid coordinates, the grid dimensions, the colour
\* table, the frame dimensions and the canvas as they are
RestUnchanged ==
  /\ GridCoords(cubes') = GridCoords(cubes)
  /\ nrOfCubesX' = nrOfCubesX
  /\ nrOfCubesY' = nrOfCubesY
  /\ colors' = colors
  /\ w' = w
  /\ h' = h
  /\ canvas' = canvas

\* C8: the steps of pixelate change nothing but the cubes' colour, scale.z
\* and position.z: the grid coordinates, the grid dimensions, the colour
\* table, the frame dimensions and the canvas stay as they are.
C8_OnlyAttributes ==
  [][(pc \in {"getImageData", "fillRect", "forEach"}) => RestUnchanged]_vars

\* the indices that getAverage reads for cube j of the grid
CubeIndices(j) ==
  LET o == SampleOrigin(impl, cubes[j], w, h)
  IN UNION {LET index == (c[1] + w * c[2]) * 4 IN {index, index + 1, index + 2} :
            c \in ReadCoords(o[1], o[2])}

\* C9: distinct blocks have distinct origins and read disjoint sets of
\* indices; for W = 64, H = 48 there are 48 blocks and every origin lies
\* in the frame.
C9_DisjointReads ==
  (Initialized /\ impl = "sketch") =>
    /\ \A a, b \in 1..Len(cubes) :
         a /= b =>
           /\ SampleOrigin(impl, cubes[a], w, h) /= SampleOrigin(impl, cubes[b], w, h)
           /\ CubeIndices(a) \cap CubeIndices(b) = {}
    /\ (w = 64 /\ h = 48) =>
         /\ Len(cubes) = 48
         /\ \A a \in 1..Len(cubes) :
              LET o == SampleOrigin(impl, cubes[a], w, h)
              IN 0 <= o[1] /\ o[1] < w /\ 0 <= o[2] /\ o[2] < h

\* what draw() has done so far is a beginning of: capture, snapshot,
\* (rectangle,) one sample per cube in order and all from that snapshot,
\* render
CycleInOrder ==
  /\ \A j \in 1..Len(log) :
       /\ log[j][1] = "capture" <=> j = 1
       /\ log[j][1] \in {"snapshot", "throw"} <=> j = 2
       /\ log[j][1] = "snapshot" =>
            /\ log[j][2].w = w /\ log[j][2].h = h
            /\ log[1][2] /= 0 =>
                 log[j][2].src = [frame |-> log[1][2], rect |-> FALSE]
       /\ log[j][1] = "fillRect" => j = 3
       /\ log[j][1] = "sample" =>
            /\ log[2][1] = "snapshot"
            /\ log[j][3] = log[2][2]
            /\ log[j][2] = Cardinality({i \in Samples : i <= j})
       /\ log[j][1] = "render" =>
            /\ j = Len(log)
            /\ log[2][1] = "snapshot"
            /\ {log[i][2] : i \in Samples} = 1..Len(cubes)
  /\ pc = "forEach" => pixels = log[2][2]
  /\ pc = "render" => {log[i][2] : i \in Samples} = 1..Len(cubes)

\* C10: in every cycle the capture comes before all sampling, every block
\* is sampled from the one snapshot of that cycle, rendering comes after the
\* last block, and draw() is never entered while a cycle is under way.
C10_CycleOrder ==
  /\ []CycleInOrder
  /\ [][pc' = "draw" => pc \in {"then", "idle"}]_vars

\* the next cycle is scheduled and this one is in the middle of its blocks
C10_Witness ==
  /\ rafPending
  /\ pc = "forEach"
  /\ k > 1
  /\ log[1][2] /= 0

\* a cycle of draw() is under way
InCycle == Initialized /\ pc /= "idle"

\* the grid as reset() and setupCubes() build it for a video of vw x vh
GridFor(i, vw, vh) ==
  GridCoords(setupCubes(i, Fraction(vw, size), Fraction(vh, size)))

\* the frame dimensions, the grid dimensions and the blocks are the ones
\* derived from the dimensions the video has now
GridIsCurrent ==
  /\ w = videoWidth
  /\ h = videoHeight
  /\ nrOfCubesX = Fraction(videoWidth, size)
  /\ nrOfCubesY = Fraction(videoHeight, size)
  /\ GridCoords(cubes) = GridFor(impl, videoWidth, videoHeight)

\* C11: whenever the video's dimensions change after start-up the grid is
\* recomputed before the next sampling pass: in every cycle w, h,
\* nrOfCubesX and nrOfCubesY are the values derived from the video's
\* current dimensions and the cubes are the ones built for them.
C11_GridFollowsVideo == InCycle => GridIsCurrent

\* draw() has been called: a cycle has logged a step or queued the next one
DrawInvoked == InCycle \/ rafPending \/ log /= <<>> \/ passes > 0

\* no call of onWindowResize has found camera undefined
HandlerFoundCamera == resized /= "TypeError"

\* draw() and pixelate run only after the then-callback has called reset(),
\* setupCamera() and setupCubes()
DrawFoundGrid == DrawInvoked => (Initialized /\ camera /= "undefined")

\* once getUserMedia is rejected draw() and pixelate are never called
RejectedNeverDraws == pc = "failed" => (~DrawInvoked /\ cubes = <<>>)

\* C12: every callback runs only once the state it dereferences exists:
\* onWindowResize never runs while camera is undefined, draw() and
\* pixelate never run before reset() and setupCubes(), and after a rejected
\* getUserMedia draw() and pixelate are never invoked.
C12_CallbacksFindState ==
  /\ HandlerFoundCamera
  /\ DrawFoundGrid
  /\ RejectedNeverDraws

====
